---- MODULE Spec2Model ----
(***************************************************************************)
(* Data Feed Intake Form (src/app.py): a Streamlit script that is re-run   *)
(* from top to bottom on every user event.  The state that survives a run  *)
(* is the Delta table (store) and, per browser session, st.session_state   *)
(* (mode, current_request_id).  One action of this model is one whole      *)
(* script run triggered by one button: its load_request, the form, the     *)
(* validation, the record build, save_request and the session update.      *)
(*                                                                         *)
(* Text is a sequence of tokens; a token is one character that is special  *)
(* to a SQL string literal (quote, backslash) or a run of ordinary         *)
(* characters.  The empty Python string is << >>, Python None / SQL NULL   *)
(* is NULL.  header_row is the only boolean.                               *)
(***************************************************************************)
EXTENDS Integers, Sequences, FiniteSets, TLC

VARIABLES
    store,      \* the rows of ohiadev.data_feeds.intake_requests, in insertion order
    session,    \* per session: st.session_state.mode / .current_request_id
    clock,      \* what datetime.now() returns
    uuids,      \* how many uuid4() values have been drawn
    out         \* what the last script run did: messages shown, statement issued

vars == <<store, session, clock, uuids, out>>

----------------------------------------------------------------------------
(* Bounds of the model *)

MaxClock == 1
MaxIds == 2

Sessions == {"s1"}

----------------------------------------------------------------------------
(* Values *)

NULL == <<"<NULL>">>
QUOTE == "'"
BACKSLASH == "\\"
TAB == "<TAB>"

Truthy(v) == v # NULL /\ v # << >>

Min(a, b) == IF a <= b THEN a ELSE b

\* datetime.now().isoformat() / strftime("%Y%m%d%H%M%S"): the text of an instant
Stamp == <<"t0", "t1", "t2", "t3", "t4", "t5", "t6", "t7", "t8", "t9">>
IsoFormat(t) == <<Stamp[t + 1]>>
InstantOf(text) == CHOOSE t \in 0..(Len(Stamp) - 1) : text = <<Stamp[t + 1]>>

\* str(uuid.uuid4())[:8]: the n-th value drawn differs from all earlier ones
ShortUuid == <<"u1", "u2", "u3", "u4", "u5", "u6", "u7", "u8", "u9">>

generate_request_id(now, n) == <<"REQ_", Stamp[now + 1], "_", ShortUuid[n]>>

----------------------------------------------------------------------------
(* The table and the form *)

RequiredFields ==
    <<"feed_name", "source_system", "vendor_name", "target_table",
      "data_owner_email", "file_name_pattern", "landing_zone_path",
      "file_format", "schedule_frequency", "requestor_name", "requestor_email">>

RequiredLabel ==
    [feed_name |-> "Feed Name", source_system |-> "Source System",
     vendor_name |-> "Vendor", target_table |-> "Target Table",
     data_owner_email |-> "Data Owner Email",
     file_name_pattern |-> "File Name Pattern",
     landing_zone_path |-> "Landing Zone Path", file_format |-> "File Format",
     schedule_frequency |-> "Schedule Frequency",
     requestor_name |-> "Requestor Name", requestor_email |-> "Requestor Email"]

FormFields ==
    {RequiredFields[i] : i \in 1..Len(RequiredFields)}
        \cup {"header_row", "schedule_time", "load_type", "sla_time", "notes"}

Columns ==
    {"request_id"} \cup (FormFields \ {"header_row"})
        \cup {"delimiter", "header_row", "status", "created_at", "updated_at"}

BoolFields == {"header_row"}

FileFormats ==
    {<< >>, <<"CSV">>, <<"Pipe-Delimited">>, <<"Tab-Delimited">>, <<"JSON">>,
     <<"Parquet">>, <<"Excel">>, <<"Fixed Width">>}
DelimitedFormats == {<<"CSV">>, <<"Pipe-Delimited">>, <<"Tab-Delimited">>}
Frequencies == {<< >>, <<"Daily">>, <<"Weekly">>, <<"Monthly">>, <<"Ad-Hoc">>}
LoadTypes == {<<"Full">>, <<"Incremental">>}

----------------------------------------------------------------------------
(* save_request / load_request / get_existing_requests: statements are     *)
(* built by string concatenation and evaluated by the SQL warehouse.       *)

\* value.replace("'", "''")
RECURSIVE Escape(_)
Escape(value) ==
    IF value = << >> THEN << >>
    ELSE (IF Head(value) = QUOTE THEN <<QUOTE, QUOTE>> ELSE <<Head(value)>>)
             \o Escape(Tail(value))

\* The text save_request puts into the statement for one value
\* (header_row is the record's only bool; every other value is None or str).
SqlLiteral(key, value) ==
    IF key \in BoolFields THEN (IF value THEN <<"true">> ELSE <<"false">>)
    ELSE IF value = NULL THEN <<"NULL">>
    ELSE <<QUOTE>> \o Escape(value) \o <<QUOTE>>

\* f"... = '{text}'": text placed between quotes as it is
RawLiteral(text) == <<QUOTE>> \o text \o <<QUOTE>>

\* The character a backslash escape stands for in a warehouse string literal
Unescape(c) == IF c = "t" THEN TAB ELSE c

\* The warehouse reads a quoted literal from position i (after the opening
\* quote): << >> when the literal is malformed, else <<the string it denotes>>.
RECURSIVE ScanLiteral(_, _, _)
ScanLiteral(lit, i, acc) ==
    IF i > Len(lit) THEN << >>
    ELSE IF lit[i] = BACKSLASH
         THEN IF i + 1 > Len(lit) THEN << >>
              ELSE ScanLiteral(lit, i + 2, Append(acc, Unescape(lit[i + 1])))
    ELSE IF lit[i] = QUOTE
         THEN IF i + 1 <= Len(lit) /\ lit[i + 1] = QUOTE
              THEN ScanLiteral(lit, i + 2, Append(acc, QUOTE))
              ELSE IF i = Len(lit) THEN <<acc>> ELSE << >>
    ELSE ScanLiteral(lit, i + 1, Append(acc, lit[i]))

\* The value the warehouse gives a literal: << >> on a syntax error
SqlValue(lit) ==
    IF lit = <<"NULL">> THEN <<NULL>>
    ELSE IF lit = <<"true">> THEN <<TRUE>>
    ELSE IF lit = <<"false">> THEN <<FALSE>>
    ELSE IF Len(lit) >= 2 /\ lit[1] = QUOTE THEN ScanLiteral(lit, 2, << >>)
    ELSE << >>

\* Faulty variant: the UPDATE has no WHERE clause
UpdateRowsNoWhere(st, id, vals) ==
    [i \in 1..Len(st) |->
        [k \in DOMAIN st[i] |->
            IF k \in (DOMAIN vals) \ {"request_id"} THEN vals[k][1]
            ELSE st[i][k]]]

\* UPDATE ... SET k = v, ... WHERE request_id = id
UpdateRows(st, id, vals) ==
    [i \in 1..Len(st) |->
        IF st[i].request_id = id
        THEN [k \in DOMAIN st[i] |->
                 IF k \in (DOMAIN vals) \ {"request_id"} THEN vals[k][1]
                 ELSE st[i][k]]
        ELSE st[i]]

\* INSERT INTO ... (columns) VALUES (values): the table has no key constraint
InsertRow(st, vals) ==
    Append(st, [k \in Columns |-> IF k \in DOMAIN vals THEN vals[k][1] ELSE NULL])

\* save_request(data, is_update): [ok, store]; raises = the warehouse or the
\* connection fails for a reason of its own.
save_request(st, data, is_update, raises) ==
    LET vals == [k \in DOMAIN data |-> SqlValue(SqlLiteral(k, data[k]))]
        where == SqlValue(RawLiteral(data.request_id))
        syntax_error ==
            IF is_update
            THEN Len(where) = 0
                 \/ \E k \in (DOMAIN data) \ {"request_id"} : Len(vals[k]) = 0
            ELSE \E k \in DOMAIN data : Len(vals[k]) = 0
    IN  IF raises \/ syntax_error THEN [ok |-> FALSE, store |-> st]
        ELSE IF is_update
             THEN [ok |-> TRUE, store |-> UpdateRows(st, where[1], vals)]
             ELSE [ok |-> TRUE, store |-> InsertRow(st, vals)]

\* load_request(request_id): the values it can return, each << >> (None) or
\* <<row>>; fetchone() takes whichever matching row the warehouse gives first.
load_request(st, request_id, raises) ==
    LET where == SqlValue(RawLiteral(request_id))
        hits == IF Len(where) = 0 THEN {}
                ELSE {i \in 1..Len(st) : st[i].request_id = where[1]}
    IN  IF raises \/ hits = {} THEN {<< >>} ELSE {<<st[i]>> : i \in hits}

\* get_existing_requests(requestor_email): the lists it can return, newest
\* first by created_at (rows with equal created_at in either order).
get_existing_requests(st, requestor_email, raises) ==
    LET where == SqlValue(RawLiteral(requestor_email))
        hits == IF Truthy(requestor_email)
                THEN IF Len(where) = 0 THEN {}
                     ELSE {i \in 1..Len(st) : st[i].requestor_email = where[1]}
                ELSE 1..Len(st)
        n == Cardinality(hits)
        orders == {p \in [1..n -> hits] :
                      /\ \A a, b \in 1..n : a # b => p[a] # p[b]
                      /\ \A a, b \in 1..n :
                            a < b => InstantOf(st[p[a]].created_at)
                                        >= InstantOf(st[p[b]].created_at)}
    IN  IF raises \/ (Truthy(requestor_email) /\ Len(where) = 0) THEN {<< >>}
        ELSE {[j \in 1..n |-> st[p[j]]] : p \in orders}

----------------------------------------------------------------------------
(* The form: what the widgets return in one script run *)

\* Widget values of a form nobody has typed into, in mode 'new'
BlankForm ==
    [feed_name |-> << >>, source_system |-> << >>, vendor_name |-> << >>,
     target_table |-> << >>, data_owner_email |-> << >>,
     file_name_pattern |-> << >>, landing_zone_path |-> << >>,
     file_format |-> << >>, header_row |-> <<"Yes">>,
     schedule_frequency |-> << >>, schedule_time |-> <<"06", ":", "00">>,
     load_type |-> <<"Full">>, sla_time |-> <<"08", ":", "00">>,
     requestor_name |-> << >>, requestor_email |-> << >>, notes |-> << >>]

\* Every required field filled in, a delimited format
FilledTab ==
    [BlankForm EXCEPT
        !.feed_name = <<"pg_survey">>, !.source_system = <<"Epic">>,
        !.vendor_name = <<"Press Ganey">>, !.target_table = <<"silver.pg">>,
        !.data_owner_email = <<"owner@ucla.edu">>,
        !.file_name_pattern = <<"pg_{YYYYMMDD}.csv">>,
        !.landing_zone_path = <<"/mnt/landing/pg/">>,
        !.file_format = <<"Tab-Delimited">>, !.schedule_frequency = <<"Daily">>,
        !.requestor_name = <<"Ann">>, !.requestor_email = <<"ann@ucla.edu">>]

\* Every required field filled in, a format without delimiter, a quote in the notes
FilledJson ==
    [FilledTab EXCEPT
        !.file_format = <<"JSON">>, !.header_row = <<"No">>,
        !.load_type = <<"Incremental">>, !.notes = <<"vendor", QUOTE, "s feed">>]

\* The vendor left empty
NoVendor == [FilledTab EXCEPT !.vendor_name = << >>]

\* What the user can have typed into the form
FormInputs == {FilledTab, FilledJson, NoVendor}

\* existing_data.get(key, default); existing_data is << >> ({}) or <<row>>
Get(existing_data, key, default) ==
    IF existing_data = << >> THEN default ELSE existing_data[1][key]

\* The time widgets' default: the stored HH:MM text when it parses, else the default
ParseTime(text, default) ==
    IF Truthy(text) /\ Len(text) = 3 /\ text[2] = ":" THEN text ELSE default

\* The widgets' value= arguments: the form as rendered from existing_data,
\* which is what the widgets return when the user changes nothing.
Prefill(existing_data) ==
    [feed_name |-> Get(existing_data, "feed_name", << >>),
     source_system |-> Get(existing_data, "source_system", << >>),
     vendor_name |-> Get(existing_data, "vendor_name", << >>),
     target_table |-> Get(existing_data, "target_table", << >>),
     data_owner_email |-> Get(existing_data, "data_owner_email", << >>),
     file_name_pattern |-> Get(existing_data, "file_name_pattern", << >>),
     landing_zone_path |-> Get(existing_data, "landing_zone_path", << >>),
     file_format |->
        IF Get(existing_data, "file_format", << >>) \in FileFormats
        THEN Get(existing_data, "file_format", << >>) ELSE << >>,
     header_row |->
        IF Get(existing_data, "header_row", TRUE) THEN <<"Yes">> ELSE <<"No">>,
     schedule_frequency |->
        IF Get(existing_data, "schedule_frequency", << >>) \in Frequencies
        THEN Get(existing_data, "schedule_frequency", << >>) ELSE << >>,
     schedule_time |->
        ParseTime(Get(existing_data, "schedule_time", NULL), <<"06", ":", "00">>),
     load_type |->
        IF Get(existing_data, "load_type", <<"Full">>) \in LoadTypes
        THEN Get(existing_data, "load_type", <<"Full">>) ELSE <<"Full">>,
     sla_time |->
        ParseTime(Get(existing_data, "sla_time", NULL), <<"08", ":", "00">>),
     requestor_name |-> Get(existing_data, "requestor_name", << >>),
     requestor_email |-> Get(existing_data, "requestor_email", << >>),
     notes |->
        IF Truthy(Get(existing_data, "notes", << >>))
        THEN Get(existing_data, "notes", << >>) ELSE << >>]

\* The delimiter selectbox's single option for a delimited format
DelimiterOption(file_format) ==
    IF file_format = <<"CSV">> THEN <<",">>
    ELSE IF file_format = <<"Pipe-Delimited">> THEN <<"|">>
    ELSE IF file_format = <<"Tab-Delimited">> THEN <<BACKSLASH, "t">>
    ELSE <<",">>

\* The variable delimiter after the form is rendered
DelimiterWidget(file_format, existing_data) ==
    IF file_format \in DelimitedFormats THEN DelimiterOption(file_format)
    ELSE Get(existing_data, "delimiter", << >>)

----------------------------------------------------------------------------
(* The script from "Load existing data" to the end *)

\* existing_data = load_request(current_request_id) or {} when editing, else {}
ExistingData(sess, st, raises) ==
    IF sess.mode = "edit" /\ Truthy(sess.current_request_id)
    THEN load_request(st, sess.current_request_id, raises)
    ELSE {<< >>}

is_readonly(existing_data) == Get(existing_data, "status", NULL) = <<"complete">>

\* Faulty variant: the button is rendered for every record being edited
MarkCompleteAlwaysShown(mode, existing_data) == mode = "edit"

\* Whether the Mark Complete button is rendered
MarkCompleteShown(mode, existing_data) ==
    mode = "edit" /\ Get(existing_data, "status", NULL) = <<"submitted">>

\* Faulty variant: the vendor is not among the required fields
missing_without_vendor(form) ==
    LET idx == {i \in 1..Len(RequiredFields) :
                    /\ RequiredFields[i] # "vendor_name"
                    /\ ~Truthy(form[RequiredFields[i]])}
    IN  {RequiredLabel[RequiredFields[i]] : i \in idx}

\* missing = [k for k, v in required_fields.items() if not v], as a set of labels
missing(form) ==
    LET idx == {i \in 1..Len(RequiredFields) : ~Truthy(form[RequiredFields[i]])}
    IN  {RequiredLabel[RequiredFields[i]] : i \in idx}

\* Determine status
StatusOf(submit, mark_complete) ==
    IF mark_complete THEN <<"complete">>
    ELSE IF submit THEN <<"submitted">>
    ELSE <<"draft">>

\* request_id = existing_data.get('request_id') or generate_request_id()
UsesExistingId(existing_data) == Truthy(Get(existing_data, "request_id", NULL))

RequestIdOf(existing_data, now, n) ==
    IF UsesExistingId(existing_data) THEN existing_data[1].request_id
    ELSE generate_request_id(now, n)

\* Faulty variant: the widget's value is stored whatever the format
DelimiterUnconditional(file_format, delimiter) == delimiter

\* "delimiter": delimiter if file_format in [...] else None
RecordDelimiter(file_format, delimiter) ==
    IF file_format \in DelimitedFormats THEN delimiter ELSE NULL

\* Faulty variant: created_at is stamped anew on every save
CreatedAtAlwaysNow(existing_data, now) == IsoFormat(now)

\* "created_at": existing_data.get('created_at') or now.isoformat()
RecordCreatedAt(existing_data, now) ==
    IF Truthy(Get(existing_data, "created_at", NULL))
    THEN existing_data[1].created_at ELSE IsoFormat(now)

\* Faulty variant: the two timestamps are assigned crosswise
TimestampsSwapped(existing_data, now) ==
    [created_at |-> IsoFormat(now),
     updated_at |-> IF Truthy(Get(existing_data, "created_at", NULL))
                    THEN existing_data[1].created_at ELSE IsoFormat(now)]

\* "created_at": ..., "updated_at": now.isoformat()
Timestamps(existing_data, now) ==
    [created_at |-> RecordCreatedAt(existing_data, now),
     updated_at |-> IsoFormat(now)]

\* Build record
BuildRecord(form, existing_data, status, request_id, now) ==
    [request_id |-> request_id,
     feed_name |-> form.feed_name,
     source_system |-> form.source_system,
     vendor_name |-> form.vendor_name,
     target_table |-> form.target_table,
     data_owner_email |-> form.data_owner_email,
     file_name_pattern |-> form.file_name_pattern,
     landing_zone_path |-> form.landing_zone_path,
     file_format |-> form.file_format,
     delimiter |->
        RecordDelimiter(form.file_format,
                        DelimiterWidget(form.file_format, existing_data)),
     header_row |-> (form.header_row = <<"Yes">>),
     schedule_frequency |-> form.schedule_frequency,
     schedule_time |-> form.schedule_time,
     load_type |-> form.load_type,
     sla_time |-> form.sla_time,
     requestor_name |-> form.requestor_name,
     requestor_email |-> form.requestor_email,
     notes |-> form.notes,
     status |-> status,
     created_at |-> Timestamps(existing_data, now).created_at,
     updated_at |-> Timestamps(existing_data, now).updated_at]

\* Faulty variant: every save is an update
IsUpdateAlways(mode) == TRUE

\* is_update = st.session_state.mode == 'edit'
IsUpdate(mode) == mode = "edit"

\* Faulty variant: the session is moved on whatever save_request returned
SessionAfterSaveAlways(sess, ok, request_id) ==
    [mode |-> "edit", current_request_id |-> request_id]

\* Faulty variant: the identifier is recorded, the mode is left as it was
SessionAfterSaveIdOnly(sess, ok, request_id) ==
    IF ok THEN [sess EXCEPT !.current_request_id = request_id] ELSE sess

\* The session after save_request returned ok
SessionAfterSave(sess, ok, request_id) ==
    IF ok THEN [mode |-> "edit", current_request_id |-> request_id] ELSE sess

----------------------------------------------------------------------------
(* State machine: one action per button, each a whole script run *)

\* for req in existing[:10]
ListLimit == 10

\* What the user can type into the sidebar's "Your Email"
UserEmails == {f.requestor_email : f \in FormInputs}

Buttons == {"save_draft", "submit", "mark_complete"}

\* What a run leaves behind for the observer: the button and the widget values,
\* the missing-field message, and the save_request call it made (if any) with
\* whether the storage layer raised and what save_request returned.  For a
\* storage function called on its own: data = <<the record passed>>, filter =
\* the email passed, result = the rows returned.
NoOut ==
    [sess |-> "none", action |-> "none", form |-> BlankForm, missing |-> {},
     called |-> FALSE, is_update |-> FALSE, request_id |-> NULL,
     fresh |-> FALSE, raised |-> FALSE, ok |-> FALSE,
     data |-> << >>, filter |-> NULL, result |-> << >>]

Init ==
    /\ store = << >>
    /\ session = [s \in Sessions |-> [mode |-> "new", current_request_id |-> NULL]]
    /\ clock = 0
    /\ uuids = 0
    /\ out = NoOut

\* Time passes between (or during) script runs
Tick ==
    /\ clock < MaxClock
    /\ clock' = clock + 1
    /\ out' = [NoOut EXCEPT !.action = "tick"]
    /\ UNCHANGED <<store, session, uuids>>

\* Sidebar: "New Request"
NewRequest(s) ==
    /\ session' = [session EXCEPT ![s] = [mode |-> "new", current_request_id |-> NULL]]
    /\ out' = [NoOut EXCEPT !.sess = s, !.action = "new"]
    /\ UNCHANGED <<store, clock, uuids>>

\* Sidebar: one of the "Previous Submissions" buttons of the typed email
SelectRequest(s) ==
    \E user_email \in UserEmails, raises \in BOOLEAN :
        /\ Truthy(user_email)
        /\ \E existing \in get_existing_requests(store, user_email, raises) :
            \E i \in 1..Min(ListLimit, Len(existing)) :
                session' = [session EXCEPT ![s] =
                               [mode |-> "edit",
                                current_request_id |-> existing[i].request_id]]
        /\ out' = [NoOut EXCEPT !.sess = s, !.action = "select"]
        /\ UNCHANGED <<store, clock, uuids>>

\* A run in which `button` of the form is pressed.  The widgets hold `typed`,
\* or, when the user changed nothing (untouched), what the form was rendered with.
Run(s, button, untouched, typed, load_raises, save_raises) ==
    \E existing_data \in ExistingData(session[s], store, load_raises) :
        LET mode == session[s].mode
            form == IF untouched THEN Prefill(existing_data) ELSE typed
            submit == button = "submit"
            mark_complete == button = "mark_complete"
            miss == missing(form)
            status == StatusOf(submit, mark_complete)
            fresh == ~UsesExistingId(existing_data)
            request_id == RequestIdOf(existing_data, clock, uuids + 1)
            record == BuildRecord(form, existing_data, status, request_id, clock)
            is_update == IsUpdate(mode)
            res == save_request(store, record, is_update, save_raises)
        IN  /\ ~is_readonly(existing_data)
            /\ mark_complete => MarkCompleteShown(mode, existing_data)
            /\ IF submit /\ miss # {}
               THEN /\ ~save_raises
                    /\ out' = [NoOut EXCEPT !.sess = s, !.action = button,
                                            !.form = form, !.missing = miss]
                    /\ UNCHANGED <<store, session, clock, uuids>>
               ELSE /\ fresh => uuids < MaxIds
                    /\ store' = res.store
                    /\ uuids' = IF fresh THEN uuids + 1 ELSE uuids
                    /\ session' = [session EXCEPT ![s] =
                                      SessionAfterSave(@, res.ok, request_id)]
                    /\ out' = [NoOut EXCEPT
                                  !.sess = s, !.action = button, !.form = form,
                                  !.called = TRUE, !.is_update = is_update,
                                  !.request_id = request_id, !.fresh = fresh,
                                  !.raised = save_raises, !.ok = res.ok]
                    /\ UNCHANGED clock

\* The inputs of a run: load_request is only called in mode 'edit'
RunInputs(s, button) ==
    \E untouched \in BOOLEAN, load_raises, save_raises \in BOOLEAN :
        /\ load_raises => session[s].mode = "edit"
        /\ \E typed \in (IF untouched THEN {BlankForm} ELSE FormInputs) :
              Run(s, button, untouched, typed, load_raises, save_raises)

SaveDraft(s) == RunInputs(s, "save_draft")

Submit(s) == RunInputs(s, "submit")

MarkComplete(s) == RunInputs(s, "mark_complete")

Next ==
    \/ Tick
    \/ \E s \in DOMAIN session : NewRequest(s)
    \/ \E s \in DOMAIN session : SelectRequest(s)
    \/ \E s \in DOMAIN session : SaveDraft(s)
    \/ \E s \in DOMAIN session : Submit(s)
    \/ \E s \in DOMAIN session : MarkComplete(s)

Spec == Init /\ [][Next]_vars

----------------------------------------------------------------------------
(* The storage functions on their own: save_request applied to any record,  *)
(* whatever identifier it carries.                                          *)

\* A requestor whose email has an apostrophe
QuoteEmail ==
    [FilledJson EXCEPT !.requestor_email = <<"o", QUOTE, "neil@ucla.edu">>]

\* The identifiers the storage functions are called with
AdapterIds == {generate_request_id(0, n) : n \in 1..MaxIds}

\* The records save_request is applied to: built as the script builds them,
\* under any identifier of the generator's form
AdapterRecords ==
    {BuildRecord(form, << >>, <<"draft">>, request_id, clock) :
        form \in {FilledTab, QuoteEmail}, request_id \in AdapterIds}

\* A data dict that names one column besides the identifier (UPDATE only:
\* save_request builds its SET clause from whatever keys data has)
PartialRecords ==
    {[request_id |-> request_id, status |-> <<"submitted">>] :
        request_id \in AdapterIds}

AdapterUpsert ==
    \E is_update, raises \in BOOLEAN :
        \E data \in AdapterRecords \cup (IF is_update THEN PartialRecords ELSE {}) :
            LET res == save_request(store, data, is_update, raises)
            IN  /\ Len(res.store) <= MaxIds
                /\ store' = res.store
                /\ out' = [NoOut EXCEPT !.action = "upsert", !.called = TRUE,
                                        !.is_update = is_update,
                                        !.request_id = data.request_id,
                                        !.raised = raises, !.ok = res.ok,
                                        !.data = <<data>>]
                /\ UNCHANGED <<session, clock, uuids>>

\* load_request(request_id) called on its own
AdapterGet ==
    \E request_id \in AdapterIds, raises \in BOOLEAN :
        \E row \in load_request(store, request_id, raises) :
            /\ out' = [NoOut EXCEPT !.action = "get", !.request_id = request_id,
                                    !.raised = raises, !.result = row]
            /\ UNCHANGED <<store, session, clock, uuids>>

\* The values get_existing_requests is called with: None, '', and the emails typed
ListFilters ==
    {NULL, << >>} \cup {f.requestor_email : f \in {FilledTab, QuoteEmail}}

\* get_existing_requests(requestor_email) called on its own
AdapterList ==
    \E requestor_email \in ListFilters, raises \in BOOLEAN :
        \E rows \in get_existing_requests(store, requestor_email, raises) :
            /\ out' = [NoOut EXCEPT !.action = "list", !.filter = requestor_email,
                                    !.raised = raises, !.result = rows]
            /\ UNCHANGED <<store, session, clock, uuids>>

NextAdapter == Tick \/ AdapterUpsert \/ AdapterGet \/ AdapterList

SpecAdapter == Init /\ [][NextAdapter]_vars

----------------------------------------------------------------------------
(* A session left editing an identifier that has no row.  The script gets   *)
(* there by itself: a first save inserts a row, a second save whose          *)
(* load_request failed generates a new identifier, updates no row, returns  *)
(* True and makes that identifier the current one.                          *)

\* The identifier the second save generated (outside the range the counter
\* draws from, so that the runs that follow can still generate their own)
StaleId == generate_request_id(0, MaxIds + 1)

InitStale ==
    /\ store = save_request(<< >>,
                            BuildRecord(FilledTab, << >>, <<"draft">>,
                                        generate_request_id(0, 1), 0),
                            FALSE, FALSE).store
    /\ session = [s \in Sessions |->
                     [mode |-> "edit", current_request_id |-> StaleId]]
    /\ clock = 0
    /\ uuids = 1
    /\ out = NoOut

SpecStale == InitStale /\ [][Next]_vars

----------------------------------------------------------------------------
(* Two browser sessions on one record: the first has saved a new request as *)
(* a draft, the second has picked it from "Previous Submissions".           *)

RaceSessions == {"s1", "s2"}

InitRace ==
    /\ store = save_request(<< >>,
                            BuildRecord(FilledTab, << >>, <<"draft">>,
                                        generate_request_id(0, 1), 0),
                            FALSE, FALSE).store
    /\ session = [s \in RaceSessions |->
                     [mode |-> "edit",
                      current_request_id |-> generate_request_id(0, 1)]]
    /\ clock = 0
    /\ uuids = 1
    /\ out = NoOut

\* Both keep working on the form they have open
NextRace ==
    \/ Tick
    \/ \E s \in DOMAIN session : SaveDraft(s)
    \/ \E s \in DOMAIN session : Submit(s)
    \/ \E s \in DOMAIN session : MarkComplete(s)

SpecRace == InitRace /\ [][NextRace]_vars

----------------------------------------------------------------------------
(* Properties *)

Rank(status) ==
    IF status = <<"draft">> THEN 1
    ELSE IF status = <<"submitted">> THEN 2
    ELSE IF status = <<"complete">> THEN 3
    ELSE 0

\* The rows of st whose identifier is id
RowsWithId(st, id) == {i \in 1..Len(st) : st[i].request_id = id}

\* The last step was a run of the form in which a button was pressed
FormRun(o) == o.action \in Buttons

\* C1: the stored status of a row never moves backwards along
\* draft -> submitted -> complete, whatever button is pressed.
C1_StatusNeverRegresses ==
    [][\A i \in 1..Len(store) :
          Rank(store'[i].status) >= Rank(store[i].status)]_vars

\* C2: once the row a session is editing is stored as complete, no run of that
\* session calls save_request, and the store stays as it is.
C2_CompleteIsLocked ==
    [][\A s \in DOMAIN session :
          (/\ session[s].mode = "edit"
           /\ \E i \in RowsWithId(store, session[s].current_request_id) :
                 store[i].status = <<"complete">>
           /\ FormRun(out') /\ out'.sess = s)
          => (~out'.called /\ store' = store)]_vars

\* The labels of the required fields a form leaves empty, field by field
C3_EmptyLabels(form) ==
    (IF form.feed_name = << >> THEN {"Feed Name"} ELSE {})
    \cup (IF form.source_system = << >> THEN {"Source System"} ELSE {})
    \cup (IF form.vendor_name = << >> THEN {"Vendor"} ELSE {})
    \cup (IF form.target_table = << >> THEN {"Target Table"} ELSE {})
    \cup (IF form.data_owner_email = << >> THEN {"Data Owner Email"} ELSE {})
    \cup (IF form.file_name_pattern = << >> THEN {"File Name Pattern"} ELSE {})
    \cup (IF form.landing_zone_path = << >> THEN {"Landing Zone Path"} ELSE {})
    \cup (IF form.file_format = << >> THEN {"File Format"} ELSE {})
    \cup (IF form.schedule_frequency = << >> THEN {"Schedule Frequency"} ELSE {})
    \cup (IF form.requestor_name = << >> THEN {"Requestor Name"} ELSE {})
    \cup (IF form.requestor_email = << >> THEN {"Requestor Email"} ELSE {})

\* C3: a submit calls save_request exactly when no required field is empty;
\* otherwise it reports exactly the labels of the empty required fields and
\* changes neither the store nor the session.
C3_SubmitValidation ==
    [][out'.action = "submit" =>
          /\ out'.called <=> C3_EmptyLabels(out'.form) = {}
          /\ C3_EmptyLabels(out'.form) # {} =>
                /\ out'.missing = C3_EmptyLabels(out'.form)
                /\ store' = store
                /\ session' = session]_vars

C3_Witness ==
    /\ out.action = "submit"
    /\ out.missing = {"Vendor"}
    /\ ~out.called
    /\ \E i \in 1..Len(store) :
          /\ store[i].request_id = session[out.sess].current_request_id
          /\ store[i].status = <<"draft">>

\* C4: a row becomes complete only in a mark-complete run, from the stored
\* status submitted, by an update that carries the row's own identifier; no
\* row is inserted as complete.
C4_CompleteOnlyFromSubmitted ==
    [][\A i \in 1..Len(store') :
          (store'[i].status = <<"complete">>
              /\ (i <= Len(store) => store[i].status # <<"complete">>))
          => /\ i <= Len(store)
             /\ store[i].status = <<"submitted">>
             /\ out'.action = "mark_complete"
             /\ out'.called /\ out'.is_update
             /\ out'.request_id = store[i].request_id
             /\ Len(store') = Len(store)]_vars

C4_Witness ==
    /\ out.action = "mark_complete" /\ out.ok
    /\ \E i \in RowsWithId(store, out.request_id) :
          store[i].status = <<"complete">>

\* C5: a run that calls save_request inserts under a freshly generated
\* identifier exactly when no row of the record is stored, and otherwise
\* updates under the identifier of a stored row.
C5_InsertUpdateAgree ==
    [][out'.called =>
          /\ out'.is_update =>
                (~out'.fresh /\ RowsWithId(store, out'.request_id) # {})
          /\ ~out'.is_update =>
                (out'.fresh /\ RowsWithId(store, out'.request_id) = {})]_vars

\* C6: no two stored rows have the same request_id, and save_request with
\* is_update false and the identifier of a stored row returns failure and
\* leaves the store as it is.
C6_IdentifierUnique ==
    [][/\ \A i, j \in 1..Len(store') :
             i # j => store'[i].request_id # store'[j].request_id
       /\ (out'.called /\ ~out'.is_update
              /\ RowsWithId(store, out'.request_id) # {})
          => (~out'.ok /\ store' = store)]_vars

\* C7: when the storage layer raises, save_request returns failure and the run
\* leaves the store and the session as they were.
C7_StorageFailurePreserves ==
    [][(out'.called /\ out'.raised) =>
          (~out'.ok /\ store' = store /\ session' = session)]_vars

C7_Witness ==
    /\ FormRun(out) /\ out.called /\ out.raised /\ ~out.ok
    /\ session[out.sess].mode = "new"

\* C8: no run changes the created_at of a stored row; a row is inserted with
\* created_at at the current time; every row a successful save writes gets
\* updated_at at the current time.
C8_CreatedAtSetOnce ==
    [][/\ \A i \in 1..Len(store) : store'[i].created_at = store[i].created_at
       /\ \A i \in 1..Len(store') :
             i > Len(store) => store'[i].created_at = IsoFormat(clock)
       /\ (out'.called /\ out'.ok) =>
             \A i \in RowsWithId(store', out'.request_id) :
                 store'[i].updated_at = IsoFormat(clock)]_vars

C8_Witness ==
    /\ FormRun(out) /\ out.is_update /\ out.ok
    /\ \E i \in RowsWithId(store, out.request_id) :
          /\ store[i].updated_at = IsoFormat(clock)
          /\ store[i].created_at # store[i].updated_at

\* C9: every stored row has created_at <= updated_at.
C9_CreatedBeforeUpdated ==
    \A i \in 1..Len(store) :
        InstantOf(store[i].created_at) <= InstantOf(store[i].updated_at)

C9_Witness ==
    \E i \in 1..Len(store) :
        InstantOf(store[i].created_at) < InstantOf(store[i].updated_at)

\* C10: in every stored row the delimiter is non-null exactly when the file
\* format is CSV, Pipe-Delimited or Tab-Delimited.
C10_DelimiterIffDelimited ==
    \A i \in 1..Len(store) :
        (store[i].delimiter # NULL)
            <=> (store[i].file_format
                    \in {<<"CSV">>, <<"Pipe-Delimited">>, <<"Tab-Delimited">>})

\* An update has just written a row in a format without delimiter (delimiter
\* NULL) while another row is stored tab-delimited with its delimiter.
C10_Witness ==
    /\ FormRun(out) /\ out.is_update /\ out.ok
    /\ out.form.file_format = <<"JSON">>
    /\ \E i \in RowsWithId(store, out.request_id) :
          /\ store[i].file_format = <<"JSON">> /\ store[i].delimiter = NULL
    /\ \E j \in 1..Len(store) :
          store[j].file_format = <<"Tab-Delimited">> /\ store[j].delimiter = <<TAB>>

\* C11: save_request with is_update true changes only rows whose request_id is
\* the record's, and in them only the columns the record names other than
\* request_id; no row is added or removed, no request_id changes, and with no
\* matching row the store stays as it is.
C11_UpdateFrame ==
    [][(out'.action = "upsert" /\ out'.is_update) =>
          LET data == out'.data[1]
          IN  /\ Len(store') = Len(store)
              /\ \A i \in 1..Len(store) :
                    /\ store'[i].request_id = store[i].request_id
                    /\ store[i].request_id # data.request_id
                          => store'[i] = store[i]
                    /\ \A k \in DOMAIN store[i] :
                          k \notin (DOMAIN data) \ {"request_id"}
                              => store'[i][k] = store[i][k]
              /\ RowsWithId(store, data.request_id) = {}
                    => store' = store]_vars

\* An update that names only status has just rewritten the status of one row;
\* another row, under a different identifier, is stored with its own status.
C11_Witness ==
    /\ out.action = "upsert" /\ out.is_update /\ out.ok
    /\ DOMAIN out.data[1] = {"request_id", "status"}
    /\ \E i, j \in 1..Len(store) :
          /\ store[i].request_id = out.request_id
          /\ store[i].status = <<"submitted">>
          /\ store[i].feed_name = <<"pg_survey">>
          /\ store[j].request_id # out.request_id
          /\ store[j].status = <<"draft">>

\* C12: after save_request with is_update false has stored a record under an
\* identifier no row had, load_request of that identifier returns a record
\* equal to the one passed on every field, quotes and backslashes included.
C12_RoundTrip ==
    [][(/\ out'.action = "upsert" /\ ~out'.is_update /\ out'.ok
        /\ RowsWithId(store, out'.request_id) = {})
       => load_request(store', out'.request_id, FALSE) = {out'.data}]_vars

\* C13: get_existing_requests returns, newest first by created_at, exactly the
\* stored rows whose requestor_email equals the value passed, whatever that
\* value is (the empty string and a value with an apostrophe included), and
\* all stored rows only when no value is passed.
C13_ListByEmail ==
    [][(out'.action = "list" /\ ~out'.raised) =>
          LET rows == out'.result
              want == IF out'.filter = NULL THEN 1..Len(store)
                      ELSE {i \in 1..Len(store) :
                               store[i].requestor_email = out'.filter}
          IN  /\ Len(rows) = Cardinality(want)
              /\ \A i \in want : \E j \in 1..Len(rows) : rows[j] = store[i]
              /\ \A j \in 1..Len(rows) : \E i \in want : rows[j] = store[i]
              /\ \A j, k \in 1..Len(rows) :
                    j < k => InstantOf(rows[j].created_at)
                                >= InstantOf(rows[k].created_at)]_vars

\* C14: load_request of an identifier without a row returns None, and the run
\* of a session that is editing such an identifier saves as a new form does:
\* by an insert, which adds the row.
C14_NotFoundIsBlankForm ==
    [][\A s \in DOMAIN session :
          (/\ session[s].mode = "edit"
           /\ RowsWithId(store, session[s].current_request_id) = {}
           /\ FormRun(out') /\ out'.sess = s /\ out'.called /\ out'.ok)
          => /\ load_request(store, session[s].current_request_id, FALSE)
                  = {<< >>}
             /\ ~out'.is_update
             /\ Len(store') = Len(store) + 1
             /\ RowsWithId(store', out'.request_id) # {}]_vars

\* C15: a successful save-draft run of a session in mode 'new' without current
\* identifier appends exactly one row, with status draft, an identifier no row
\* had, and created_at = updated_at; it leaves the rows already stored as they
\* were and puts the session in mode 'edit' on the new row's identifier.
C15_FirstDraftInserts ==
    [][\A s \in DOMAIN session :
          (/\ session[s].mode = "new"
           /\ session[s].current_request_id = NULL
           /\ out'.action = "save_draft" /\ out'.sess = s /\ out'.ok)
          => /\ Len(store') = Len(store) + 1
             /\ \A i \in 1..Len(store) : store'[i] = store[i]
             /\ store'[Len(store')].status = <<"draft">>
             /\ RowsWithId(store, store'[Len(store')].request_id) = {}
             /\ store'[Len(store')].created_at = store'[Len(store')].updated_at
             /\ session'[s] =
                   [mode |-> "edit",
                    current_request_id |-> store'[Len(store')].request_id]]_vars

\* A blank form has just been saved as a draft, as a second row, and the
\* session is editing it.
C15_Witness ==
    /\ out.action = "save_draft" /\ out.ok /\ ~out.is_update
    /\ out.form = BlankForm
    /\ Len(store) = 2
    /\ store[2].status = <<"draft">>
    /\ store[2].request_id = out.request_id
    /\ store[1].status = <<"submitted">>
    /\ session[out.sess] = [mode |-> "edit", current_request_id |-> out.request_id]

\* C16: when a session updates a row right after another session has updated
\* the same row, the second update is not rejected, and afterwards every
\* field of the row but request_id is the one of the record the second
\* session built: nothing of the first update is kept.
C16_LastWriteWins ==
    [][(/\ FormRun(out) /\ out.called /\ out.is_update /\ out.ok
        /\ FormRun(out') /\ out'.called /\ out'.is_update
        /\ out'.sess # out.sess
        /\ out'.request_id = out.request_id
        /\ RowsWithId(store, out'.request_id) # {})
       => /\ out'.ok \/ out'.raised
          /\ out'.ok =>
                \A i \in RowsWithId(store', out'.request_id) :
                    \A k \in (DOMAIN store'[i]) \ {"request_id"} :
                        store'[i][k] =
                            BuildRecord(out'.form, <<store[i]>>,
                                        StatusOf(out'.action = "submit",
                                                 out'.action = "mark_complete"),
                                        out'.request_id, clock)[k]]_vars

\* C17: whenever a run reports success and makes R the session's
\* current_request_id, a row with request_id R is stored and its fields are
\* those of the record the run built from the form (created_at apart, which
\* the record takes from the loaded row), also when load_request failed or
\* found no row while the session was in mode 'edit'.
C17_SuccessImpliesPersisted ==
    [][\A s \in DOMAIN session :
          (FormRun(out') /\ out'.sess = s /\ out'.ok) =>
              /\ session'[s].current_request_id = out'.request_id
              /\ RowsWithId(store', out'.request_id) # {}
              /\ \A i \in RowsWithId(store', out'.request_id) :
                    \A k \in (DOMAIN store'[i]) \ {"created_at"} :
                        store'[i][k] =
                            BuildRecord(out'.form, << >>,
                                        StatusOf(out'.action = "submit",
                                                 out'.action = "mark_complete"),
                                        out'.request_id, clock)[k]]_vars

\* C18: every stored row whose status is submitted or complete has a
\* non-empty value in each of the eleven required fields.
C18_ValidatedStatuses ==
    \A i \in 1..Len(store) :
        store[i].status \in {<<"submitted">>, <<"complete">>}
            => \A j \in 1..Len(RequiredFields) :
                  /\ store[i][RequiredFields[j]] # NULL
                  /\ store[i][RequiredFields[j]] # << >>

====
